---- MODULE Spec2Model ----
(***************************************************************************)
(* Model of custom_components/xiaomi_humidifier/humidifier.py: the entity  *)
(* adapter XiaomiAirHumidifier (poll, commands, availability, skip-update) *)
(* and the service handler registered by async_setup_platform.             *)
(***************************************************************************)
EXTENDS Integers, Sequences, FiniteSets, TLC

(***************************************************************************)
(* Bounds of the model.                                                    *)
(***************************************************************************)
\* number of configured humidifiers (entries of hass.data[DATA_KEY])
NumEntities == 2

Entities == 1..NumEntities

(***************************************************************************)
(* Python values.  Every value carries its type, so that None, booleans,   *)
(* integers and Enum members can be told apart (isinstance, truthiness).   *)
(***************************************************************************)
None == [t |-> "None"]

PyBool(b) == [t |-> "bool", v |-> b]

PyInt(n) == [t |-> "int", v |-> n]

\* a str is the sequence of its characters
PyStr(s) == [t |-> "str", v |-> s]

\* a member of an Enum class: its name and its underlying value
PyEnum(name, value) == [t |-> "Enum", name |-> name, v |-> value]

\* a test for `x is not None` in the place of truth value testing
TruthyNotNone(x) == x.t # "None"

\* Python truth value testing, as used by `if x:`
Truthy(x) ==
    CASE x.t = "None" -> FALSE
      [] x.t = "bool" -> x.v
      [] x.t = "int"  -> x.v # 0
      [] x.t = "str"  -> Len(x.v) > 0
      [] x.t = "list" -> x.v # {}
      [] OTHER        -> TRUE

(***************************************************************************)
(* str.title(): the first cased character of every word is upper-cased,    *)
(* every other cased character lower-cased; an uncased character ends the  *)
(* word.  Characters are one-character strings over the letters below.     *)
(***************************************************************************)
LowerChars == <<"a","c","d","e","g","h","i","l","m","n","o","p","r","t","u","w","y">>

UpperChars == <<"A","C","D","E","G","H","I","L","M","N","O","P","R","T","U","W","Y">>

IndexIn(c, chars) ==
    IF \E i \in 1..Len(chars) : chars[i] = c
    THEN CHOOSE i \in 1..Len(chars) : chars[i] = c
    ELSE 0

IsLower(c) == IndexIn(c, LowerChars) > 0

IsUpper(c) == IndexIn(c, UpperChars) > 0

ToUpper(c) == IF IsLower(c) THEN UpperChars[IndexIn(c, LowerChars)] ELSE c

ToLower(c) == IF IsUpper(c) THEN LowerChars[IndexIn(c, UpperChars)] ELSE c

RECURSIVE TitleFrom(_, _)
TitleFrom(s, previous_is_cased) ==
    IF s = <<>> THEN <<>>
    ELSE LET c == Head(s)
             cased == IsLower(c) \/ IsUpper(c)
             out == IF previous_is_cased THEN ToLower(c) ELSE ToUpper(c)
         IN  <<out>> \o TitleFrom(Tail(s), cased)

title(s) == TitleFrom(s, FALSE)

(***************************************************************************)
(* AirhumidifierMjjsqOperationMode, the closed mode enumeration of the     *)
(* vendor library (imported, not defined in this repository).              *)
(***************************************************************************)
OperationMode ==
    { PyEnum(<<"L","o","w">>, 1),
      PyEnum(<<"M","e","d","i","u","m">>, 2),
      PyEnum(<<"H","i","g","h">>, 3),
      PyEnum(<<"H","u","m","i","d","i","t","y">>, 4),
      PyEnum(<<"W","e","t","A","n","d","P","r","o","t","e","c","t">>, 5) }

KeyError == [t |-> "KeyError"]

\* a lookup that falls back to the first member instead of failing
OperationModeByNameOrDefault(name) ==
    IF \E m \in OperationMode : m.name = name
    THEN CHOOSE m \in OperationMode : m.name = name
    ELSE CHOOSE m \in OperationMode : m.v = 1

\* OperationMode[name]: the member of that name; KeyError when there is none
OperationModeByName(name) ==
    IF \E m \in OperationMode : m.name = name
    THEN CHOOSE m \in OperationMode : m.name = name
    ELSE KeyError

(***************************************************************************)
(* The tracked attributes and the status field each is read from.          *)
(***************************************************************************)
AVAILABLE_ATTRIBUTES_AIRHUMIDIFIER ==
    [ current_temperature |-> "temperature",
      current_humidity    |-> "humidity",
      mode                |-> "mode",
      buzzer              |-> "buzzer",
      led                 |-> "led",
      no_water            |-> "no_water",
      water_tank_detached |-> "water_tank_detached",
      target_humidity     |-> "target_humidity" ]

AttributeKeys == DOMAIN AVAILABLE_ATTRIBUTES_AIRHUMIDIFIER

MinHumidity == 40

MaxHumidity == 70

(***************************************************************************)
(* The device: what the vendor handle can answer.                          *)
(***************************************************************************)
\* the status objects the device may report
Statuses ==
    { [ is_on |-> PyBool(TRUE), temperature |-> PyInt(22), humidity |-> PyInt(55),
        mode |-> PyEnum(<<"L","o","w">>, 1), buzzer |-> PyBool(FALSE),
        led |-> PyBool(TRUE), no_water |-> PyBool(FALSE),
        water_tank_detached |-> PyBool(FALSE), target_humidity |-> PyInt(60) ],
      [ is_on |-> PyBool(FALSE), temperature |-> PyInt(23), humidity |-> PyInt(41),
        mode |-> PyEnum(<<"H","u","m","i","d","i","t","y">>, 4), buzzer |-> PyBool(TRUE),
        led |-> PyBool(FALSE), no_water |-> PyBool(TRUE),
        water_tank_detached |-> PyBool(TRUE), target_humidity |-> PyInt(40) ] }

SUCCESS == <<"ok">>

\* what a command call on the device handle can end in: a returned list, or
\* DeviceException
CommandOutcomes ==
    { [exc |-> FALSE, result |-> SUCCESS],
      [exc |-> FALSE, result |-> <<"error">>],
      [exc |-> TRUE,  result |-> <<>>] }

\* what a status() call can end in: a status object, or DeviceException
StatusOutcomes ==
    { [exc |-> FALSE, status |-> s] : s \in Statuses } \cup { [exc |-> TRUE] }


\* the mode argument a caller may pass: no argument (None) or a name
ModeInputs ==
    { None,
      PyStr(<<>>),
      PyStr(<<"l","o","w">>),
      PyStr(<<"H","I","G","H">>),
      PyStr(<<"W","e","t","A","n","d","P","r","o","t","e","c","t">>),
      PyStr(<<"a","u","t","o">>) }

\* the target humidity a caller may pass
HumidityInputs == { PyInt(MinHumidity), PyInt(MaxHumidity) }

(***************************************************************************)
(* State.                                                                  *)
(***************************************************************************)
VARIABLES
    available,      \* self._available, per entity
    state,          \* self._state, per entity: None, True or False
    skip_update,    \* self._skip_update, per entity
    state_attrs,    \* self._state_attrs, per entity: attribute key -> value
    svc,            \* the running async_service_handler: its locals and position
    last,           \* the last operation run and its exchange with the device
    last_contact,   \* per entity, how its most recent device call ended
    polls_skipped,  \* per entity, the polls skipped since a turn-on/off succeeded
    inflight        \* the poll and the turn-on/off suspended at their device call

entity_vars == <<available, state, skip_update, state_attrs>>

history_vars == <<last, last_contact, polls_skipped>>

vars == <<available, state, skip_update, state_attrs, svc, last, last_contact,
          polls_skipped, inflight>>

\* the count of skipped polls is kept up to this value
MaxSkipCount == 2

NoOutcome == [exc |-> FALSE]

\* a call made on the device handle
Call(method, arg) == [method |-> method, arg |-> arg]

\* the record of one operation: its name, entity and argument, the calls it
\* made on the device handle, what the device answered, what it raised, and
\* whether the operation before it was a poll of the same entity that failed
Op(op, e, arg, calls, outcome, raised) ==
    [op |-> op, ent |-> e, arg |-> arg, calls |-> calls, outcome |-> outcome,
     raised |-> raised, follows_failed_update |-> FALSE]

Accepted(o) == o.calls # <<>> /\ ~o.outcome.exc /\ o.outcome.result = SUCCESS

\* the history kept beside the program's state: operation o has just run
Log(o) ==
    /\ last' = [o EXCEPT !.follows_failed_update =
                    last.op = "update" /\ last.ent = o.ent /\ last.outcome.exc]
    /\ last_contact' =
          IF o.calls = <<>> THEN last_contact
          ELSE [last_contact EXCEPT ![o.ent] =
                    IF o.outcome.exc THEN "DeviceException" ELSE "answered"]
    /\ polls_skipped' =
          IF o.op = "update" /\ o.calls = <<>>
          THEN [polls_skipped EXCEPT ![o.ent] =
                    IF @ < MaxSkipCount THEN @ + 1 ELSE @]
          ELSE IF o.op \in {"turn_on", "turn_off"} /\ Accepted(o)
          THEN [polls_skipped EXCEPT ![o.ent] = 0]
          ELSE polls_skipped

\* XiaomiAirHumidifier.__init__, for every configured entity
Init ==
    /\ available = [e \in Entities |-> FALSE]
    /\ state = [e \in Entities |-> None]
    /\ skip_update = [e \in Entities |-> FALSE]
    /\ state_attrs = [e \in Entities |-> [k \in AttributeKeys |-> None]]
    /\ svc = [pc |-> "idle", method |-> "", entity_ids |-> None, devices |-> <<>>,
              i |-> 0, calling |-> {}, invoked |-> <<>>, update_tasks |-> <<>>,
              tasks |-> <<>>]
    /\ last = Op("init", 0, None, <<>>, NoOutcome, "")
    /\ last_contact = [e \in Entities |-> "none"]
    /\ polls_skipped = [e \in Entities |-> 0]
    /\ inflight = [poll |-> "idle", status |-> NoOutcome, cmd |-> "none",
                   poll_first |-> FALSE, commanded |-> None]

(***************************************************************************)
(* Helpers of the entity.                                                  *)
(***************************************************************************)
\* an extraction that hands Enum members on as they are
extract_value_from_attribute_raw(status, attribute) == status[attribute]

\* _extract_value_from_attribute: an Enum member is reduced to its value
extract_value_from_attribute(status, attribute) ==
    LET value == status[attribute]
    IN  IF value.t = "Enum" THEN PyInt(value.v) ELSE value

\* dict.update
DictUpdate(old, new) ==
    [k \in (DOMAIN old) \cup (DOMAIN new) |->
        IF k \in DOMAIN new THEN new[k] ELSE old[k]]

\* _try_command, its return value: result == SUCCESS, False on DeviceException
try_command_result(outcome) ==
    IF outcome.exc THEN PyBool(FALSE) ELSE PyBool(outcome.result = SUCCESS)

\* a _try_command that forgets to mark the entity unavailable
try_command_available_unmarked(av, outcome) == av

\* a _try_command that marks the entity available when the device accepts
try_command_available_marked(av, outcome) ==
    IF outcome.exc THEN FALSE ELSE IF outcome.result = SUCCESS THEN TRUE ELSE av

\* _try_command, its effect on self._available
try_command_available(av, outcome) ==
    IF outcome.exc THEN FALSE ELSE av

\* async_set_mode has no return statement
set_mode_return(outcome) == None

(***************************************************************************)
(* The coroutines of the entity, from the point where the worker pool      *)
(* hands back the outcome of the device call.                              *)
(***************************************************************************)
\* a bare _try_command: buzzer, led, target humidity, set_mode
try_command_done(e, outcome) ==
    /\ available' = [available EXCEPT ![e] = try_command_available(@, outcome)]
    /\ UNCHANGED <<state, skip_update, state_attrs>>

\* a turn-on/off that clears the recorded attributes when it succeeds
turn_done_clearing(e, outcome, result, on) ==
    /\ available' = [available EXCEPT ![e] = try_command_available(@, outcome)]
    /\ IF Truthy(result)
       THEN /\ state' = [state EXCEPT ![e] = PyBool(on)]
            /\ skip_update' = [skip_update EXCEPT ![e] = TRUE]
            /\ state_attrs' = [state_attrs EXCEPT ![e] = [k \in AttributeKeys |-> None]]
       ELSE UNCHANGED <<state, skip_update, state_attrs>>

\* async_turn_on / async_turn_off after the command: `if result:`
turn_done(e, outcome, result, on) ==
    /\ available' = [available EXCEPT ![e] = try_command_available(@, outcome)]
    /\ IF Truthy(result)
       THEN /\ state' = [state EXCEPT ![e] = PyBool(on)]
            /\ skip_update' = [skip_update EXCEPT ![e] = TRUE]
       ELSE UNCHANGED <<state, skip_update>>
    /\ UNCHANGED state_attrs

\* an async_update whose failure leaves self._available as it was
update_done_unmarked(e, outcome) ==
    IF outcome.exc
    THEN UNCHANGED <<available, state, skip_update, state_attrs>>
    ELSE /\ available' = [available EXCEPT ![e] = TRUE]
         /\ state' = [state EXCEPT ![e] = outcome.status.is_on]
         /\ state_attrs' = [state_attrs EXCEPT ![e] =
                DictUpdate(@, [key \in AttributeKeys |->
                    extract_value_from_attribute(outcome.status,
                        AVAILABLE_ATTRIBUTES_AIRHUMIDIFIER[key])])]
         /\ UNCHANGED skip_update

\* an async_update whose failure clears the recorded attributes
update_done_clearing(e, outcome) ==
    IF outcome.exc
    THEN /\ available' = [available EXCEPT ![e] = FALSE]
         /\ state_attrs' = [state_attrs EXCEPT ![e] = [k \in AttributeKeys |-> None]]
         /\ UNCHANGED <<state, skip_update>>
    ELSE /\ available' = [available EXCEPT ![e] = TRUE]
         /\ state' = [state EXCEPT ![e] = outcome.status.is_on]
         /\ state_attrs' = [state_attrs EXCEPT ![e] =
                DictUpdate(@, [key \in AttributeKeys |->
                    extract_value_from_attribute(outcome.status,
                        AVAILABLE_ATTRIBUTES_AIRHUMIDIFIER[key])])]
         /\ UNCHANGED skip_update

\* an async_update that records a fetched status without setting self._available
update_done_unrecovered(e, outcome) ==
    IF outcome.exc
    THEN /\ available' = [available EXCEPT ![e] = FALSE]
         /\ UNCHANGED <<state, skip_update, state_attrs>>
    ELSE /\ state' = [state EXCEPT ![e] = outcome.status.is_on]
         /\ state_attrs' = [state_attrs EXCEPT ![e] =
                DictUpdate(@, [key \in AttributeKeys |->
                    extract_value_from_attribute(outcome.status,
                        AVAILABLE_ATTRIBUTES_AIRHUMIDIFIER[key])])]
         /\ UNCHANGED <<available, skip_update>>

\* async_update after status() returned or raised
update_done(e, outcome) ==
    IF outcome.exc
    THEN /\ available' = [available EXCEPT ![e] = FALSE]
         /\ UNCHANGED <<state, skip_update, state_attrs>>
    ELSE /\ available' = [available EXCEPT ![e] = TRUE]
         /\ state' = [state EXCEPT ![e] = outcome.status.is_on]
         /\ state_attrs' = [state_attrs EXCEPT ![e] =
                DictUpdate(@, [key \in AttributeKeys |->
                    extract_value_from_attribute(outcome.status,
                        AVAILABLE_ATTRIBUTES_AIRHUMIDIFIER[key])])]
         /\ UNCHANGED skip_update

\* a skipped async_update that leaves self._skip_update set
update_skipped_kept(e) ==
    UNCHANGED <<available, state, skip_update, state_attrs>>

\* async_update when self._skip_update is set: consume it and return
update_skipped(e) ==
    /\ skip_update' = [skip_update EXCEPT ![e] = FALSE]
    /\ UNCHANGED <<available, state, state_attrs>>

\* the call each buzzer / led method makes on the device handle
MethodCall(method) ==
    CASE method = "set_buzzer_on"  -> Call("set_buzzer", PyBool(TRUE))
      [] method = "set_buzzer_off" -> Call("set_buzzer", PyBool(FALSE))
      [] method = "set_led_on"     -> Call("set_led", PyBool(TRUE))
      [] method = "set_led_off"    -> Call("set_led", PyBool(FALSE))

(***************************************************************************)
(* The operations the host runs on one entity, one at a time.              *)
(***************************************************************************)
async_update(e) ==
    IF skip_update[e]
    THEN /\ update_skipped(e)
         /\ Log(Op("update", e, None, <<>>, NoOutcome, ""))
    ELSE \E outcome \in StatusOutcomes :
            /\ update_done(e, outcome)
            /\ Log(Op("update", e, None, <<Call("status", None)>>, outcome, ""))

async_set_mode(e) ==
    \E mode \in ModeInputs \ {None} :
        LET member == OperationModeByName(title(mode.v))
        IN  IF member = KeyError
            THEN /\ UNCHANGED entity_vars
                 /\ Log(Op("set_mode", e, mode, <<>>, NoOutcome, "KeyError"))
            ELSE \E outcome \in CommandOutcomes :
                    /\ try_command_done(e, outcome)
                    /\ Log(Op("set_mode", e, mode, <<Call("set_mode", member)>>,
                              outcome, ""))

async_turn_on(e) ==
    \E mode \in ModeInputs :
        IF Truthy(mode)
        THEN LET member == OperationModeByName(title(mode.v))
             IN  IF member = KeyError
                 THEN /\ UNCHANGED entity_vars
                      /\ Log(Op("turn_on", e, mode, <<>>, NoOutcome, "KeyError"))
                 ELSE \E outcome \in CommandOutcomes :
                         /\ turn_done(e, outcome, set_mode_return(outcome), TRUE)
                         /\ Log(Op("turn_on", e, mode, <<Call("set_mode", member)>>,
                                   outcome, ""))
        ELSE \E outcome \in CommandOutcomes :
                /\ turn_done(e, outcome, try_command_result(outcome), TRUE)
                /\ Log(Op("turn_on", e, mode, <<Call("on", None)>>, outcome, ""))

async_turn_off(e) ==
    \E outcome \in CommandOutcomes :
        /\ turn_done(e, outcome, try_command_result(outcome), FALSE)
        /\ Log(Op("turn_off", e, None, <<Call("off", None)>>, outcome, ""))

async_set_humidity(e) ==
    \E humidity \in HumidityInputs, outcome \in CommandOutcomes :
        /\ try_command_done(e, outcome)
        /\ Log(Op("set_humidity", e, humidity,
                  <<Call("set_target_humidity", humidity)>>, outcome, ""))

async_set_buzzer_on(e) ==
    \E outcome \in CommandOutcomes :
        /\ try_command_done(e, outcome)
        /\ Log(Op("set_buzzer_on", e, None, <<MethodCall("set_buzzer_on")>>, outcome, ""))

async_set_buzzer_off(e) ==
    \E outcome \in CommandOutcomes :
        /\ try_command_done(e, outcome)
        /\ Log(Op("set_buzzer_off", e, None, <<MethodCall("set_buzzer_off")>>, outcome, ""))

async_set_led_on(e) ==
    \E outcome \in CommandOutcomes :
        /\ try_command_done(e, outcome)
        /\ Log(Op("set_led_on", e, None, <<MethodCall("set_led_on")>>, outcome, ""))

async_set_led_off(e) ==
    \E outcome \in CommandOutcomes :
        /\ try_command_done(e, outcome)
        /\ Log(Op("set_led_off", e, None, <<MethodCall("set_led_off")>>, outcome, ""))

\* The entities hold no state in common, so the host's own calls are explored
\* on one of them; the others are reached through the service handler.
HostDriven == { CHOOSE e \in Entities : \A d \in Entities : e <= d }

Next ==
    \E e \in HostDriven :
        \/ async_update(e) /\ UNCHANGED <<svc, inflight>>
        \/ async_turn_on(e) /\ UNCHANGED <<svc, inflight>>
        \/ async_turn_off(e) /\ UNCHANGED <<svc, inflight>>
        \/ async_set_mode(e) /\ UNCHANGED <<svc, inflight>>
        \/ async_set_humidity(e) /\ UNCHANGED <<svc, inflight>>
        \/ async_set_buzzer_on(e) /\ UNCHANGED <<svc, inflight>>
        \/ async_set_buzzer_off(e) /\ UNCHANGED <<svc, inflight>>
        \/ async_set_led_on(e) /\ UNCHANGED <<svc, inflight>>
        \/ async_set_led_off(e) /\ UNCHANGED <<svc, inflight>>

Spec == Init /\ [][Next]_vars

\* The host polls every entity it was given at its scan interval, for as long
\* as it runs: polls of the entity keep happening.
PollFairness == WF_vars(\E e \in HostDriven : async_update(e) /\ UNCHANGED <<svc, inflight>>)

LiveSpec == Init /\ [][Next]_vars /\ PollFairness

(***************************************************************************)
(* async_service_handler.  The handler is a coroutine: a step runs it from *)
(* one suspension point to the next.  It suspends in the loop while the    *)
(* worker pool runs the device call of the method it awaits, and in        *)
(* asyncio.wait while the refresh tasks run.                               *)
(***************************************************************************)
SERVICE_TO_METHOD ==
    [ set_buzzer_on  |-> "async_set_buzzer_on",
      set_buzzer_off |-> "async_set_buzzer_off",
      set_led_on     |-> "async_set_led_on",
      set_led_off    |-> "async_set_led_off" ]

Services == DOMAIN SERVICE_TO_METHOD

\* the methods of XiaomiAirHumidifier a service can name
EntityMethods ==
    {"async_set_buzzer_on", "async_set_buzzer_off", "async_set_led_on",
     "async_set_led_off"}

\* hasattr(device, method["method"])
hasattr(e, method) == method \in EntityMethods

\* hass.data[DATA_KEY].values(), in the order the entities were set up
RegisteredDevices == [n \in 1..NumEntities |-> n]

\* device.entity_id: the host gives every entity its own id
entity_id(e) == e

\* 0 is the id of an entity that is none of this platform's
PyList(ids) == [t |-> "list", v |-> ids]

\* service.data.get(ATTR_ENTITY_ID): absent, or a list of entity ids
SelectorInputs == {None} \cup { PyList(ids) : ids \in SUBSET (Entities \cup {0}) }

Range(seq) == { seq[n] : n \in DOMAIN seq }

\* a resolution that takes every registered device whatever the selector
resolve_devices_all(entity_ids) == RegisteredDevices

\* lines 296-303: the devices a call resolves to
resolve_devices(entity_ids) ==
    IF Truthy(entity_ids)
    THEN SelectSeq(RegisteredDevices, LAMBDA d : entity_id(d) \in entity_ids.v)
    ELSE RegisteredDevices

\* the first device at or after position n that has the method, 0 when none
next_device(devices, n, method) ==
    IF \E j \in n..Len(devices) : hasattr(devices[j], method)
    THEN CHOOSE j \in n..Len(devices) :
            /\ hasattr(devices[j], method)
            /\ \A k \in n..(j - 1) : ~hasattr(devices[k], method)
    ELSE 0

\* a loop that starts the method of every remaining device before it awaits
awaited_calls_gathered(devices, n) == { devices[j] : j \in n..Len(devices) }

\* line 309: the loop awaits the method of one device at a time
awaited_calls(devices, n) == { devices[n] }

\* the handler is called and runs to its first suspension point
async_service_handler(service, entity_ids) ==
    /\ svc.pc \in {"idle", "returned"}
    /\ LET method == SERVICE_TO_METHOD[service]
           devices == resolve_devices(entity_ids)
           first == next_device(devices, 1, method)
       IN  svc' = IF first = 0
                  THEN [pc |-> "returned", method |-> service,
                        entity_ids |-> entity_ids, devices |-> devices, i |-> 0,
                        calling |-> {}, invoked |-> <<>>, update_tasks |-> <<>>,
                        tasks |-> <<>>]
                  ELSE [pc |-> "command", method |-> service,
                        entity_ids |-> entity_ids, devices |-> devices, i |-> first,
                        calling |-> awaited_calls(devices, first),
                        invoked |-> <<devices[first]>>, update_tasks |-> <<>>,
                        tasks |-> <<>>]
    /\ UNCHANGED entity_vars
    /\ UNCHANGED history_vars

\* a handler that a DeviceException of the awaited method ends: no further
\* device is invoked and no refresh is run
service_command_done_aborting ==
    /\ svc.pc = "command"
    /\ LET e == svc.devices[svc.i]
           update_tasks == Append(svc.update_tasks, e)
           next == next_device(svc.devices, svc.i + 1, SERVICE_TO_METHOD[svc.method])
       IN  \E outcome \in CommandOutcomes :
              /\ try_command_done(e, outcome)
              /\ Log(Op(svc.method, e, None, <<MethodCall(svc.method)>>, outcome, ""))
              /\ svc' = IF outcome.exc
                        THEN [svc EXCEPT !.pc = "returned", !.calling = {}]
                        ELSE IF next # 0
                        THEN [svc EXCEPT !.i = next,
                                         !.calling = awaited_calls(svc.devices, next),
                                         !.invoked = Append(@, svc.devices[next]),
                                         !.update_tasks = update_tasks]
                        ELSE [svc EXCEPT !.pc = "wait",
                                         !.calling = {},
                                         !.update_tasks = update_tasks,
                                         !.tasks = [d \in Range(update_tasks) |-> "scheduled"]]

\* the awaited method returns: append its refresh, go on with the loop, and
\* after the last device hand the refreshes to asyncio.wait
service_command_done ==
    /\ svc.pc = "command"
    /\ LET e == svc.devices[svc.i]
           update_tasks == Append(svc.update_tasks, e)
           next == next_device(svc.devices, svc.i + 1, SERVICE_TO_METHOD[svc.method])
       IN  /\ \E outcome \in CommandOutcomes :
                /\ try_command_done(e, outcome)
                /\ Log(Op(svc.method, e, None, <<MethodCall(svc.method)>>, outcome, ""))
           /\ svc' = IF next # 0
                     THEN [svc EXCEPT !.i = next,
                                      !.calling = awaited_calls(svc.devices, next),
                                      !.invoked = Append(@, svc.devices[next]),
                                      !.update_tasks = update_tasks]
                     ELSE [svc EXCEPT !.pc = "wait",
                                      !.calling = {},
                                      !.update_tasks = update_tasks,
                                      !.tasks = [d \in Range(update_tasks) |-> "scheduled"]]

\* a refresh task starts: async_update_ha_state(True) runs async_update up to
\* its await, or to its end when the poll is skipped
refresh_start(e) ==
    /\ svc.pc = "wait"
    /\ e \in DOMAIN svc.tasks
    /\ svc.tasks[e] = "scheduled"
    /\ IF skip_update[e]
       THEN /\ update_skipped(e)
            /\ Log(Op("update", e, None, <<>>, NoOutcome, ""))
            /\ svc' = [svc EXCEPT !.tasks[e] = "finished"]
       ELSE /\ svc' = [svc EXCEPT !.tasks[e] = "fetching"]
            /\ UNCHANGED entity_vars
            /\ UNCHANGED history_vars

\* the status call of a refresh task returns or raises
refresh_done(e) ==
    /\ svc.pc = "wait"
    /\ e \in DOMAIN svc.tasks
    /\ svc.tasks[e] = "fetching"
    /\ \E outcome \in StatusOutcomes :
          /\ update_done(e, outcome)
          /\ Log(Op("update", e, None, <<Call("status", None)>>, outcome, ""))
    /\ svc' = [svc EXCEPT !.tasks[e] = "finished"]

\* a handler that returns without waiting for its refresh tasks
service_return_early ==
    /\ svc.pc = "wait"
    /\ svc' = [svc EXCEPT !.pc = "returned"]
    /\ UNCHANGED entity_vars
    /\ UNCHANGED history_vars

\* line 313: asyncio.wait returns when every refresh task is done
service_return ==
    /\ svc.pc = "wait"
    /\ \A e \in DOMAIN svc.tasks : svc.tasks[e] = "finished"
    /\ svc' = [svc EXCEPT !.pc = "returned"]
    /\ UNCHANGED entity_vars
    /\ UNCHANGED history_vars

\* a turn-off the host runs before it first calls a service: it arms
\* skip-update, so that a refresh task can meet an armed flag
host_turn_off_before_services(e) ==
    /\ svc.pc = "idle"
    /\ async_turn_off(e)
    /\ UNCHANGED <<svc, inflight>>

ServiceNext ==
    \/ \E service \in Services, entity_ids \in SelectorInputs :
          async_service_handler(service, entity_ids) /\ UNCHANGED inflight
    \/ service_command_done /\ UNCHANGED inflight
    \/ \E e \in Entities : refresh_start(e) /\ UNCHANGED inflight
    \/ \E e \in Entities : refresh_done(e) /\ UNCHANGED inflight
    \/ service_return /\ UNCHANGED inflight
    \/ \E e \in HostDriven : host_turn_off_before_services(e)

ServiceSpec == Init /\ [][ServiceNext]_vars

(***************************************************************************)
(* A poll and a turn-on/off of one entity, each suspended at its           *)
(* `await self.hass.async_add_executor_job(...)` while the other runs.      *)
(* inflight.poll and inflight.cmd are the positions of the two coroutines,  *)
(* inflight.status what the device produced for the suspended poll;         *)
(* poll_first and commanded are history: whether the command was issued     *)
(* while the poll was already waiting, and the state such a command, once   *)
(* accepted, asked for.                                                     *)
(***************************************************************************)
\* async_update up to its await: the skip test, then status() handed to the pool
update_begin(e) ==
    /\ inflight.poll = "idle"
    /\ IF skip_update[e]
       THEN /\ update_skipped(e)
            /\ Log(Op("update", e, None, <<>>, NoOutcome, ""))
            /\ inflight' = [inflight EXCEPT !.commanded = None]
       ELSE /\ \E outcome \in StatusOutcomes :
                  inflight' = [inflight EXCEPT !.poll = "fetching",
                                               !.status = outcome,
                                               !.poll_first = FALSE,
                                               !.commanded = None]
            /\ UNCHANGED entity_vars
            /\ UNCHANGED history_vars
    /\ UNCHANGED svc

\* async_update resumed with what status() returned or raised
update_end(e) ==
    /\ inflight.poll = "fetching"
    /\ update_done(e, inflight.status)
    /\ Log(Op("update", e, None, <<Call("status", None)>>, inflight.status, ""))
    /\ inflight' = [inflight EXCEPT !.poll = "idle", !.status = NoOutcome]
    /\ UNCHANGED svc

\* async_turn_on() / async_turn_off() up to the await in _try_command
turn_begin(e, on) ==
    /\ inflight.cmd = "none"
    /\ inflight' = [inflight EXCEPT !.cmd = IF on THEN "turn_on" ELSE "turn_off",
                                    !.poll_first = (inflight.poll = "fetching"),
                                    !.commanded = None]
    /\ UNCHANGED entity_vars
    /\ UNCHANGED history_vars
    /\ UNCHANGED svc

\* async_turn_on() / async_turn_off() resumed with the device's answer
turn_end(e) ==
    /\ inflight.cmd # "none"
    /\ \E outcome \in CommandOutcomes :
          LET on == inflight.cmd = "turn_on"
              result == try_command_result(outcome)
          IN  /\ turn_done(e, outcome, result, on)
              /\ Log(Op(inflight.cmd, e, None,
                        <<Call(IF on THEN "on" ELSE "off", None)>>, outcome, ""))
              /\ inflight' = [inflight EXCEPT
                                !.cmd = "none",
                                !.poll_first = FALSE,
                                !.commanded = IF Truthy(result) /\ inflight.poll_first
                                              THEN PyBool(on) ELSE None]
    /\ UNCHANGED svc

InterleavedNext ==
    \E e \in HostDriven :
        \/ update_begin(e)
        \/ update_end(e)
        \/ \E on \in BOOLEAN : turn_begin(e, on)
        \/ turn_end(e)

InterleavedSpec == Init /\ [][InterleavedNext]_vars

(***************************************************************************)
(* Properties of the entity.  A step is named by the operation it records  *)
(* in last'; Subject is the entity that operation ran on.                  *)
(***************************************************************************)
CommandOps ==
    {"turn_on", "turn_off", "set_mode", "set_humidity", "set_buzzer_on",
     "set_buzzer_off", "set_led_on", "set_led_off"}

\* the operation contacted the device
Contacted(o) == o.calls # <<>>

\* a command the device did not accept: DeviceException, or another response
Failed(o) ==
    /\ o.op \in CommandOps
    /\ Contacted(o)
    /\ (o.outcome.exc \/ o.outcome.result # SUCCESS)

\* a poll that fetched a status
PolledOk(o) == o.op = "update" /\ Contacted(o) /\ ~o.outcome.exc

\* a poll whose status fetch raised DeviceException
PollFailed(o) == o.op = "update" /\ Contacted(o) /\ o.outcome.exc

\* a poll that returned without contacting the device
PollSkipped(o) == o.op = "update" /\ ~Contacted(o)

ModeNames == { m.name : m \in OperationMode }

\* C1: after every turn-on (with or without a mode) and every turn-off that
\* the device accepts, the on/off flag equals the commanded state and
\* skip-update is armed.
C1_AcceptedTurnSetsStateAndArmsSkip ==
    (last.op \in {"turn_on", "turn_off"} /\ Accepted(last))
        => /\ state[last.ent] = PyBool(last.op = "turn_on")
           /\ skip_update[last.ent]

\* C2 as claimed: every command that does not succeed (DeviceException or a
\* non-success response) keeps the on/off flag and leaves availability false.
C2_FailedCommandMarksUnavailable ==
    [][ LET o == last'
        IN  Failed(o) => /\ state'[o.ent] = state[o.ent]
                         /\ ~available'[o.ent] ]_vars

\* C2 as amended: every command that does not succeed keeps the on/off flag;
\* availability is false afterwards when the device call raised
\* DeviceException, and is what it was when the device answered with a
\* non-success response.
C2_FailedCommandKeepsStateAndMarksOnException ==
    [][ LET o == last'
        IN  Failed(o) => /\ state'[o.ent] = state[o.ent]
                         /\ o.outcome.exc => ~available'[o.ent]
                         /\ ~o.outcome.exc => available'[o.ent] = available[o.ent]
      ]_vars

C2_Witness ==
    /\ Failed(last)
    /\ ~last.outcome.exc
    /\ available[last.ent]
    /\ state[last.ent] # None

\* C3: whenever the most recent device call of an entity ended in
\* DeviceException, the entity is unavailable.
C3_UnavailableAfterCommunicationError ==
    \A e \in Entities : last_contact[e] = "DeviceException" => ~available[e]

C3_Witness ==
    /\ PollSkipped(last)
    /\ last_contact[last.ent] = "DeviceException"

\* C4: a poll whose status fetch raises DeviceException sets availability to
\* false and leaves the on/off flag and every tracked attribute as they were.
C4_FailedPollKeepsAttributes ==
    [][ LET o == last'
        IN  PollFailed(o) => /\ ~available'[o.ent]
                             /\ state'[o.ent] = state[o.ent]
                             /\ \A k \in AttributeKeys :
                                   state_attrs'[o.ent][k] = state_attrs[o.ent][k]
                             /\ DOMAIN state_attrs'[o.ent] = AttributeKeys ]_vars

C4_Witness ==
    /\ PollFailed(last)
    /\ ~available[last.ent]
    /\ state[last.ent] # None
    /\ \A k \in AttributeKeys : state_attrs[last.ent][k] # None

\* C5: after a poll that fetched a status, the entity is available, the on/off
\* flag is the status's is_on, and each of the eight attributes is the
\* status's field, the mode reduced to its underlying value.
C5_SuccessfulPollRefreshesEverything ==
    PolledOk(last) =>
        LET e == last.ent
            status == last.outcome.status
        IN  /\ available[e]
            /\ state[e] = status.is_on
            /\ DOMAIN state_attrs[e] = AttributeKeys
            /\ state_attrs[e].current_temperature = status.temperature
            /\ state_attrs[e].current_humidity = status.humidity
            /\ state_attrs[e].mode = PyInt(status.mode.v)
            /\ state_attrs[e].buzzer = status.buzzer
            /\ state_attrs[e].led = status.led
            /\ state_attrs[e].no_water = status.no_water
            /\ state_attrs[e].water_tank_detached = status.water_tank_detached
            /\ state_attrs[e].target_humidity = status.target_humidity

C5_Witness ==
    /\ PolledOk(last)
    /\ last.follows_failed_update
    /\ available[last.ent]

\* C6: availability starts false, and goes from false to true only in a step
\* that is a poll of that entity which fetched a status.
C6_AvailableOnlyBySuccessfulPoll ==
    /\ \A e \in Entities : ~available[e]
    /\ [][ \A e \in Entities :
             (~available[e] /\ available'[e]) => (PolledOk(last') /\ last'.ent = e)
         ]_vars

C6_Witness ==
    /\ last.op \in CommandOps
    /\ Accepted(last)
    /\ ~available[last.ent]
    /\ last_contact[last.ent] = "answered"

\* C7 as claimed: set-mode, and turn-on with a mode argument, called with a
\* name that after title-casing is no member of the enumeration raises the
\* lookup error, calls nothing on the device and changes nothing.
C7_UnknownModeFailsWithoutContact ==
    [][ LET o == last'
        IN  (/\ o.op \in {"set_mode", "turn_on"}
             /\ o.arg.t = "str"
             /\ title(o.arg.v) \notin ModeNames)
            => /\ o.raised = "KeyError"
               /\ o.calls = <<>>
               /\ UNCHANGED entity_vars ]_vars

\* C7 as amended: the same for set-mode with any name and for turn-on with a
\* non-empty name; turn-on with an empty name runs as turn-on without a mode.
C7_UnknownNonEmptyModeFailsWithoutContact ==
    [][ LET o == last'
        IN  (/\ o.op \in {"set_mode", "turn_on"}
             /\ o.arg.t = "str"
             /\ (o.op = "turn_on" => Len(o.arg.v) > 0)
             /\ title(o.arg.v) \notin ModeNames)
            => /\ o.raised = "KeyError"
               /\ o.calls = <<>>
               /\ UNCHANGED entity_vars ]_vars

C7_Witness ==
    /\ last.op = "turn_on"
    /\ last.raised = "KeyError"
    /\ last.calls = <<>>
    /\ state[last.ent] # None
    /\ available[last.ent]

\* C8: a poll run while skip-update is armed clears the flag, calls nothing on
\* the device and leaves availability, the on/off flag and the attributes as
\* they were; no second poll is skipped until a turn-on/off succeeds again.
C8_SkippedPollConsumesFlagOnce ==
    [][ LET o == last'
        IN  /\ (o.op = "update" /\ skip_update[o.ent])
                => /\ ~skip_update'[o.ent]
                   /\ o.calls = <<>>
                   /\ available'[o.ent] = available[o.ent]
                   /\ state'[o.ent] = state[o.ent]
                   /\ state_attrs'[o.ent] = state_attrs[o.ent]
            /\ (o.op = "update" /\ ~skip_update[o.ent]) => Contacted(o)
            /\ \A e \in Entities : polls_skipped'[e] <= 1 ]_vars

C8_Witness ==
    /\ PollSkipped(last)
    /\ polls_skipped[last.ent] = 1
    /\ ~skip_update[last.ent]
    /\ state[last.ent] = PyBool(FALSE)
    /\ state_attrs[last.ent].mode # None

(***************************************************************************)
(* Properties of the service handler.                                      *)
(***************************************************************************)
\* the entities whose id is in the selector of the running call
Selected == { e \in Entities : entity_id(e) \in svc.entity_ids.v }

AllRefreshesFinished ==
    /\ DOMAIN svc.tasks = Range(svc.invoked)
    /\ \A e \in DOMAIN svc.tasks : svc.tasks[e] = "finished"

InvokedOnceEach ==
    \A m, n \in DOMAIN svc.invoked : svc.invoked[m] = svc.invoked[n] => m = n

\* C9 as claimed: when the handler has returned, with a selector it has
\* invoked the operation on exactly the registered entities whose id is in the
\* selector, with no selector on every registered entity, and the refresh of
\* every entity it invoked was scheduled and has finished.
C9_SelectorResolvesExactlyAndWaits ==
    svc.pc = "returned" =>
        /\ Range(svc.invoked) = IF svc.entity_ids = None THEN Entities ELSE Selected
        /\ InvokedOnceEach
        /\ AllRefreshesFinished

\* C9 as amended: the same, an empty selector counting as no selector.
C9_NonEmptySelectorResolvesExactlyAndWaits ==
    svc.pc = "returned" =>
        /\ Range(svc.invoked) =
              IF svc.entity_ids = None \/ svc.entity_ids.v = {}
              THEN Entities ELSE Selected
        /\ InvokedOnceEach
        /\ AllRefreshesFinished

C9_Witness ==
    /\ svc.pc = "returned"
    /\ svc.entity_ids # None
    /\ 0 \in svc.entity_ids.v
    /\ Range(svc.invoked) # {}
    /\ Range(svc.invoked) # Entities
    /\ \A e \in Range(svc.invoked) : svc.tasks[e] = "finished"

ServiceCommandRaised(o) ==
    /\ svc.pc = "command"
    /\ o.op \in Services
    /\ o.ent = svc.devices[svc.i]
    /\ Contacted(o)
    /\ o.outcome.exc

\* C11: when the operation of one resolved entity ends in DeviceException,
\* that entity and no other becomes unavailable, the handler goes on to the
\* next resolved entity (or to the refreshes), the failing entity still gets
\* its refresh, and a handler that has returned has invoked the operation on
\* every resolved entity and finished the refresh of each.
C11_FailureDoesNotCancelOthers ==
    /\ [][ LET o == last'
           IN  ServiceCommandRaised(o) =>
                 /\ ~available'[o.ent]
                 /\ \A d \in Entities \ {o.ent} : available'[d] = available[d]
                 /\ svc'.update_tasks = Append(svc.update_tasks, o.ent)
                 /\ IF svc.i < Len(svc.devices)
                    THEN /\ svc'.pc = "command"
                         /\ svc'.calling = {svc.devices[svc.i + 1]}
                    ELSE /\ svc'.pc = "wait"
                         /\ DOMAIN svc'.tasks = Range(svc.devices) ]_vars
    /\ [](svc.pc = "returned" =>
            /\ Range(svc.invoked) = Range(svc.devices)
            /\ \A d \in Range(svc.devices) :
                  d \in DOMAIN svc.tasks /\ svc.tasks[d] = "finished")

C11_Witness ==
    /\ svc.pc = "command"
    /\ svc.i >= 2
    /\ last.op \in Services
    /\ last.ent = svc.devices[svc.i - 1]
    /\ last.outcome.exc
    /\ ~available[last.ent]
    /\ svc.calling = {svc.devices[svc.i]}
    /\ available[svc.devices[svc.i]]

\* C12: no command, accepted or not, changes a recorded attribute of any
\* entity: the attributes change only in a step that is a poll which fetched
\* a status, and then only those of the polled entity.
C12_AttributesChangeOnlyByPoll ==
    [][ LET o == last'
        IN  /\ o.op \in CommandOps => state_attrs' = state_attrs
            /\ \A e \in Entities :
                  state_attrs'[e] # state_attrs[e] => (PolledOk(o) /\ o.ent = e) ]_vars

\* an accepted set-mode (High) and the recorded mode still the polled one (Low)
C12_Witness ==
    /\ last.op = "set_mode"
    /\ Accepted(last)
    /\ last.calls[1].arg.v = 3
    /\ state_attrs[last.ent].mode = PyInt(1)
    /\ state_attrs[last.ent].target_humidity = PyInt(60)

\* a device call of the last operation raised DeviceException
DeviceCallRaised == Contacted(last) /\ last.outcome.exc

\* the last operation was a turn-on/off the device accepted (it armed skip-update)
TurnAccepted == last.op \in {"turn_on", "turn_off"} /\ Accepted(last)

\* C13 as stated: under fair polling, if from some point on no device call
\* fails, the entity is eventually available for good.
C13_FairPollingRecovers ==
    \A e \in HostDriven :
        (<>[]~DeviceCallRaised) => <>[]available[e]

\* C13: under fair polling, if from some point on no device call fails and
\* no turn-on/off is accepted any more (so skip-update is not armed again
\* before every poll), the entity is eventually available for good; and an
\* armed skip-update never suppresses more than one poll.
C13_FairPollingRecoversOnceTurnsStop ==
    \A e \in HostDriven :
        /\ [](polls_skipped[e] <= 1)
        /\ ((<>[]~DeviceCallRaised) /\ (<>[]~TurnAccepted)) => <>[]available[e]

\* a poll made the entity available after one poll had been skipped
C13_Witness ==
    \E e \in HostDriven :
        /\ PolledOk(last)
        /\ last.ent = e
        /\ ~last.follows_failed_update
        /\ polls_skipped[e] = 1
        /\ last_contact[e] = "answered"
        /\ available[e]
        /\ ~skip_update[e]

\* the name with every cased character lower-cased
Lowered(s) == [i \in DOMAIN s |-> ToLower(s[i])]

\* the calls of a turn-on whose mode names a member of the enumeration: one
\* set-mode call with that member and nothing else
OneSetModeCallNamedBy(o) ==
    \E m \in OperationMode :
        /\ Lowered(m.name) = Lowered(o.arg.v)
        /\ o.calls = <<Call("set_mode", m)>>

\* no operation calls the device handle more than once: nothing is retried
NoRetry(o) == Len(o.calls) <= 1

C15_InterleavedTurnKeepsCommandedState ==
    \A e \in HostDriven :
        (/\ inflight.poll = "idle"
         /\ inflight.cmd = "none"
         /\ inflight.commanded # None)
        => state[e] = inflight.commanded

(***************************************************************************)
(* The mode accessor.                                                      *)
(***************************************************************************)
ValueError == [t |-> "ValueError"]

\* AirhumidifierMjjsqOperationMode(value): the member with that underlying
\* value, or ValueError
OperationModeByValue(value) ==
    IF \E m \in OperationMode : value = PyInt(m.v)
    THEN CHOOSE m \in OperationMode : value = PyInt(m.v)
    ELSE ValueError

\* XiaomiAirHumidifier.mode: what reading the property yields
mode(e) ==
    IF Truthy(state[e])
    THEN LET member == OperationModeByValue(state_attrs[e].mode)
         IN  IF member = ValueError THEN ValueError ELSE PyStr(member.name)
    ELSE None

\* C16: whenever the on/off flag is true the recorded mode is the value of a
\* member of the enumeration and the mode accessor yields that member's
\* name; when the flag is false or unknown the accessor yields none.
C16_ModeReadableWheneverOn ==
    \A e \in Entities :
        IF Truthy(state[e])
        THEN /\ \E m \in OperationMode : state_attrs[e].mode = PyInt(m.v)
             /\ mode(e) \in { PyStr(n) : n \in ModeNames }
        ELSE mode(e) = None

====
